---------------------------- MODULE Spec2Model ----------------------------
(***************************************************************************)
(* Model of the shape-overlay video filter (src/src/shape_overlay_filter.cpp).*)
(*                                                                         *)
(* One filter instance, one frame-delivery thread (filter_video) and one   *)
(* settings thread (update), sharing the instance under its std::mutex.    *)
(*                                                                         *)
(* Number representation:                                                  *)
(*   - threshold, scores and opacity are floats in the code; here they are *)
(*     integers in thousandths (0.8f is 800, opacity 1.0f is 1000);        *)
(*   - times are nanoseconds, as returned by os_gettime_ns;                *)
(*   - a frame buffer is an array of bytes addressed as the code does,     *)
(*     row * linesize + column * 4 + channel;                              *)
(*   - an image (cv::Mat) is a record [cols, rows, px], px a function from *)
(*     <<x, y>> to the pixel's channel tuple; the empty Mat has cols =     *)
(*     rows = 0.                                                           *)
(***************************************************************************)
EXTENDS Integers, Sequences, FiniteSets, TLC

VARIABLES
    filter,     \* shape_overlay_filter_data: configuration and detection state
    mutex,      \* owner of filter->mutex: "free", "video" or "update"
    vpc,        \* position of the frame thread inside shape_overlay_filter_video
    v,          \* locals of the running shape_overlay_filter_video call
    upc,        \* position of the settings thread inside shape_overlay_filter_update
    clock,      \* value os_gettime_ns returns
    ret,        \* what the last finished shape_overlay_filter_video call returned
    hist,       \* history of the run: what has been attempted/emitted so far
    bl          \* a stand-alone call of blend_overlay_bgra: arguments and result

vars == <<filter, mutex, vpc, v, upc, clock, ret, hist, bl>>

-----------------------------------------------------------------------------
(* Bounds of the model *)

\* the clock advances by one millisecond at a time, at most MaxTicks times
MaxTicks == 1
\* stand-alone blend calls: frames up to MaxDim x MaxDim, overlays likewise
MaxDim == 2

(* Program constants *)

\* interval_ms * 1000000ull
NsPerMs == 1000000
\* the float 1.0f of std::clamp(x, 0.0f, 1.0f): floats are counted in thousandths
UnitScale == 1000
\* obs_data_get_double(settings, "opacity") / 100.0
PercentDiv == 100
\* bytes per pixel of a BGRA/BGRX frame and of the overlay (the 4u of the blend)
BytesPerPx == 4
\* dst_px[3] = 255, inv_alpha = 255 - src_alpha, the divisor 255
Opaque == 255
\* the + 127 rounding bias of the blend
RoundBias == 127
\* static_cast<uint8_t>
ByteMod == 256

TickNs == NsPerMs

Min(a, b) == IF a < b THEN a ELSE b
Max(a, b) == IF a > b THEN a ELSE b

-----------------------------------------------------------------------------
(* Images *)

Coords(w, h) == (0 .. w - 1) \X (0 .. h - 1)

\* cv::Mat()
EmptyMat == [cols |-> 0, rows |-> 0, px |-> << >>]

\* cv::Mat::empty()
IsEmpty(m) == m.cols = 0 \/ m.rows = 0

\* The files the image decoder can be pointed at.  cv::imread is outside the
\* repository: a path it cannot decode gives the empty Mat.
\* cv::imread(path, cv::IMREAD_GRAYSCALE): one channel whatever the file holds.
\* The grey values themselves are left out: nothing but cv::matchTemplate
\* reads them, and its result is an input of the model (MatchResults).
ImreadGray(path) ==
    CASE path = "t.png"   -> [cols |-> 2, rows |-> 1, px |-> << >>]
      [] path = "big.png" -> [cols |-> 3, rows |-> 1, px |-> << >>]
      [] path = "tall.png" -> [cols |-> 1, rows |-> 3, px |-> << >>]
      [] OTHER -> EmptyMat

\* cv::imread(path, cv::IMREAD_UNCHANGED): the file's own channel count.
ImreadUnchanged(path) ==
    CASE path = "o.png" ->
            [cols |-> 2, rows |-> 2,
             px |-> [p \in Coords(2, 2) |->
                       CASE p = <<0, 0>> -> <<200, 100, 50, 255>>
                         [] p = <<1, 0>> -> <<200, 100, 50, 0>>
                         [] p = <<0, 1>> -> <<0, 255, 128, 128>>
                         [] OTHER        -> <<255, 0, 64, 1>>]]
      [] path = "rgb.png" ->
            [cols |-> 1, rows |-> 1, px |-> [p \in Coords(1, 1) |-> <<10, 20, 30>>]]
      [] path = "gray.png" ->
            [cols |-> 1, rows |-> 1, px |-> [p \in Coords(1, 1) |-> <<77>>]]
      [] path = "ga.png" ->
            [cols |-> 1, rows |-> 1, px |-> [p \in Coords(1, 1) |-> <<77, 255>>]]
      [] OTHER -> EmptyMat

Channels(m) == IF IsEmpty(m) THEN 0 ELSE Len(m.px[<<0, 0>>])

\* load_template_gray
LoadTemplateGray(path) ==
    IF path = "" THEN EmptyMat ELSE ImreadGray(path)

\* load_overlay_bgra: 4 channels as they are, 3 and 1 channels get an opaque
\* alpha, any other channel count gives the empty Mat
LoadOverlayBgra(path) ==
    IF path = "" THEN EmptyMat
    ELSE LET img == ImreadUnchanged(path) IN
         IF IsEmpty(img) THEN img
         ELSE IF Channels(img) = 4 THEN img
         ELSE IF Channels(img) = 3
              THEN [img EXCEPT !.px = [p \in DOMAIN img.px |->
                       <<img.px[p][1], img.px[p][2], img.px[p][3], Opaque>>]]
         ELSE IF Channels(img) = 1
              THEN [img EXCEPT !.px = [p \in DOMAIN img.px |->
                       <<img.px[p][1], img.px[p][1], img.px[p][1], Opaque>>]]
         ELSE EmptyMat

\* Length of the overlap of destination cell i (of d) with source cell k (of s),
\* both measured in units of 1/(d*s) of the whole extent.
Overlap(i, d, k, s) == Max(0, Min((i + 1) * s, (k + 1) * d) - Max(i * s, k * d))

\* cv::resize(src, dst, cv::Size(dw, dh), 0, 0, cv::INTER_AREA): every
\* destination pixel is the area-weighted mean of the source pixels it covers
\* (for whole-number ratios: the block mean when shrinking, the covering source
\* pixel when enlarging), rounded to the nearest byte.
ResizeArea(src, dw, dh) ==
    LET sw == src.cols
        sh == src.rows
        total == sw * sh
        Weighted(i, j, c) ==
            LET rowsum[ky \in 0 .. sh] ==
                    IF ky = 0 THEN 0
                    ELSE LET colsum[kx \in 0 .. sw] ==
                                 IF kx = 0 THEN 0
                                 ELSE colsum[kx - 1]
                                      + Overlap(i, dw, kx - 1, sw)
                                        * Overlap(j, dh, ky - 1, sh)
                                        * src.px[<<kx - 1, ky - 1>>][c]
                         IN rowsum[ky - 1] + colsum[sw]
            IN rowsum[sh]
    IN [cols |-> dw, rows |-> dh,
        px |-> [p \in Coords(dw, dh) |->
                  [c \in 1 .. 4 |-> (2 * Weighted(p[1], p[2], c) + total) \div (2 * total)]]]

-----------------------------------------------------------------------------
(* Settings (obs_data_t) and the instance data *)

\* A double or float that is not a number (obs_data_get_double hands over
\* whatever double the settings object holds).  It stands outside the
\* thousandths; every ordered comparison with it is false.
NaN == -1000000000

\* a < b on floats
Less(a, b) == a # NaN /\ b # NaN /\ a < b

\* std::clamp(x, lo, hi), as the standard libraries compute it:
\* (x < lo) ? lo : (hi < x) ? hi : x
Clamp(x, lo, hi) == IF Less(x, lo) THEN lo ELSE IF Less(hi, x) THEN hi ELSE x

\* What std::clamp may return.  The standard asks for values that < orders,
\* which a NaN is not: for a NaN the result is not defined by the language,
\* the comparisons of the usual implementation give x back.
ClampOutcomes(x, lo, hi) == IF x = NaN THEN {NaN, lo, hi} ELSE {Clamp(x, lo, hi)}

\* static_cast<float>(percent / 100.0), in thousandths
PercentToFraction(percent) ==
    IF percent = NaN THEN NaN ELSE (percent * UnitScale) \div PercentDiv

\* The settings records the settings source hands over.  threshold is in
\* thousandths, opacity in percent, interval_ms in milliseconds.
SettingsPool ==
    { [template_path |-> "t.png", overlay_path |-> "o.png", threshold |-> 800,
       interval_ms |-> 1, opacity |-> 100, offset_x |-> 0, offset_y |-> 0,
       scale_overlay |-> TRUE, only_when_matched |-> TRUE],
      [template_path |-> "t.png", overlay_path |-> "o.png", threshold |-> 800,
       interval_ms |-> 0, opacity |-> 50, offset_x |-> 1, offset_y |-> -1,
       scale_overlay |-> FALSE, only_when_matched |-> FALSE],
      [template_path |-> "t.png", overlay_path |-> "gray.png", threshold |-> 800,
       interval_ms |-> 0, opacity |-> 100, offset_x |-> 0, offset_y |-> 1,
       scale_overlay |-> FALSE, only_when_matched |-> TRUE],
      [template_path |-> "big.png", overlay_path |-> "rgb.png", threshold |-> 1500,
       interval_ms |-> 0, opacity |-> 250, offset_x |-> -1, offset_y |-> 0,
       scale_overlay |-> TRUE, only_when_matched |-> FALSE],
      [template_path |-> "", overlay_path |-> "o.png", threshold |-> -100,
       interval_ms |-> 1, opacity |-> -20, offset_x |-> 0, offset_y |-> 0,
       scale_overlay |-> TRUE, only_when_matched |-> TRUE],
      [template_path |-> "t.png", overlay_path |-> "ga.png", threshold |-> 800,
       interval_ms |-> 0, opacity |-> 100, offset_x |-> 0, offset_y |-> 0,
       scale_overlay |-> TRUE, only_when_matched |-> FALSE],
      [template_path |-> "t.png", overlay_path |-> "rgb.png", threshold |-> 800,
       interval_ms |-> 1, opacity |-> 100, offset_x |-> 0, offset_y |-> 0,
       scale_overlay |-> TRUE, only_when_matched |-> TRUE] }

\* struct shape_overlay_filter_data, with its default member initializers
DefaultData ==
    [template_path |-> "", overlay_path |-> "",
     template_gray |-> EmptyMat, overlay_bgra |-> EmptyMat, overlay_draw |-> EmptyMat,
     threshold |-> 800, interval_ms |-> 100, opacity |-> 1000,
     offset_x |-> 0, offset_y |-> 0,
     scale_overlay |-> TRUE, only_when_matched |-> TRUE,
     last_detect_ts |-> 0, last_x |-> 0, last_y |-> 0, last_score |-> 0,
     last_valid |-> FALSE, warned_format |-> FALSE]

\* shape_overlay_filter_update, lines 131-142: the scalar fields, opacity as
\* percent / 100.0, then both floats clamped to [0, 1]
ApplyFields(f, s) ==
    [f EXCEPT !.template_path = s.template_path,
              !.overlay_path = s.overlay_path,
              !.threshold = Clamp(s.threshold, 0, UnitScale),
              !.interval_ms = s.interval_ms,
              !.opacity = Clamp(PercentToFraction(s.opacity), 0, UnitScale),
              !.offset_x = s.offset_x,
              !.offset_y = s.offset_y,
              !.scale_overlay = s.scale_overlay,
              !.only_when_matched = s.only_when_matched]

\* shape_overlay_filter_update, lines 144-145
LoadImages(f) ==
    [f EXCEPT !.template_gray = LoadTemplateGray(f.template_path),
              !.overlay_bgra = LoadOverlayBgra(f.overlay_path)]

\* an update that always draws the overlay at its native size
ScaleOverlayNever(f) == [f EXCEPT !.overlay_draw = f.overlay_bgra]

\* shape_overlay_filter_update, lines 147-153
ScaleOverlay(f) ==
    IF ~IsEmpty(f.overlay_bgra) /\ f.scale_overlay /\ ~IsEmpty(f.template_gray)
    THEN [f EXCEPT !.overlay_draw =
              ResizeArea(f.overlay_bgra, f.template_gray.cols, f.template_gray.rows)]
    ELSE [f EXCEPT !.overlay_draw = f.overlay_bgra]

\* an update that resets the whole detection state
InvalidateAll(f) ==
    [f EXCEPT !.last_valid = FALSE, !.last_detect_ts = 0, !.last_x = 0, !.last_y = 0,
              !.last_score = 0]

\* shape_overlay_filter_update, line 155
Invalidate(f) == [f EXCEPT !.last_valid = FALSE]

\* shape_overlay_filter_create: new shape_overlay_filter_data() and one update
Created(s) == Invalidate(ScaleOverlay(LoadImages(ApplyFields(DefaultData, s))))

-----------------------------------------------------------------------------
(* Frames *)

NullPtr == "nullptr"

\* The frames the frame source delivers (obs_source_frame: format, width,
\* height, linesize[0]; rows are padded by one pixel): the two supported
\* 4-channel layouts (the source reuses one frame object for both), an
\* unsupported one, and no frame at all.
FramePool ==
    { [ptr |-> "frameA", format |-> "BGRA", width |-> 2, height |-> 2, linesize |-> 12],
      [ptr |-> "frameA", format |-> "BGRX", width |-> 2, height |-> 2, linesize |-> 12],
      [ptr |-> "frameB", format |-> "NV12", width |-> 2, height |-> 2, linesize |-> 12],
      [ptr |-> NullPtr, format |-> "none", width |-> 0, height |-> 0, linesize |-> 0] }

\* The frame object without its format field, which only the format gate reads
Geometry(fr) == [ptr |-> fr.ptr, width |-> fr.width, height |-> fr.height,
                 linesize |-> fr.linesize]

\* frame->data[0] as delivered: pixel (x, y) is B = 10 + x, G = 20 + y,
\* R = 30, A = 40; padding bytes are 99
FrameData(fr) ==
    [i \in 0 .. fr.linesize * fr.height - 1 |->
        LET x == (i % fr.linesize) \div BytesPerPx
            y == i \div fr.linesize
            c == i % BytesPerPx
        IN IF x >= fr.width THEN 99
           ELSE CASE c = 0 -> 10 + x
                  [] c = 1 -> 20 + y
                  [] c = 2 -> 30
                  [] OTHER -> 40]

\* a format test that lets every layout through
UnsupportedNever(format) == FALSE

\* frame->format != VIDEO_FORMAT_BGRA && frame->format != VIDEO_FORMAT_BGRX
Unsupported(format) == format # "BGRA" /\ format # "BGRX"

-----------------------------------------------------------------------------
(* detect_template *)

\* The correlation maxima cv::matchTemplate / cv::minMaxLoc can report, in
\* thousandths (the result surface is float, so max_val is a float value).
Scores == {799, 800}

\* What matchTemplate and minMaxLoc can yield for a frame and a template that
\* fits into it: a maximum and its place on the (W-w+1) x (H-h+1) surface.
MatchResults(frame_gray, templ_gray) ==
    { [max_val |-> s, max_loc |-> l] :
        s \in Scores,
        l \in Coords(frame_gray.cols - templ_gray.cols + 1,
                     frame_gray.rows - templ_gray.rows + 1) }

\* a detect_template that tests for empty images only
FailsClosedOnEmpty(frame_gray, templ_gray) ==
    IsEmpty(frame_gray) \/ IsEmpty(templ_gray)

\* The two early returns of detect_template (lines 176-182)
FailsClosed(frame_gray, templ_gray) ==
    \/ IsEmpty(frame_gray) \/ IsEmpty(templ_gray)
    \/ templ_gray.cols > frame_gray.cols \/ templ_gray.rows > frame_gray.rows

\* an exclusive threshold test
AcceptsStrict(max_val, threshold) == max_val > threshold

\* max_val >= threshold
Accepts(max_val, threshold) == max_val >= threshold

\* detect_template: the out parameters keep the caller's initial 0 when they
\* are not written
DetectTemplate(frame_gray, templ_gray, threshold, mres) ==
    IF FailsClosed(frame_gray, templ_gray)
    THEN [matched |-> FALSE, x |-> 0, y |-> 0, score |-> 0]
    ELSE IF Accepts(mres.max_val, threshold)
         THEN [matched |-> TRUE, x |-> mres.max_loc[1], y |-> mres.max_loc[2],
               score |-> mres.max_val]
         ELSE [matched |-> FALSE, x |-> 0, y |-> 0, score |-> mres.max_val]

-----------------------------------------------------------------------------
(* blend_overlay_bgra *)

\* an effective alpha computed from the opacity setting in percent, as if line
\* 135 did not divide by 100.0
EffAlphaOfPercent(alpha, opacity) ==
    (2 * alpha * opacity * PercentDiv + UnitScale) \div (2 * UnitScale)

\* static_cast<int>(static_cast<float>(src_px[3]) * opacity + 0.5f)
EffAlpha(alpha, opacity) == (2 * alpha * opacity + UnitScale) \div (2 * UnitScale)

\* a loop body that skips no pixel
SkippedNever(src_alpha) == FALSE

\* src_alpha <= 0: the pixel is skipped
Skipped(src_alpha) == src_alpha <= 0

\* a channel blend that truncates instead of rounding
BlendChannelTruncating(src, dst, src_alpha) ==
    ((src * src_alpha + dst * (Opaque - src_alpha)) \div Opaque) % ByteMod

\* (src * src_alpha + dst * inv_alpha + 127) / 255, the int that is narrowed
BlendWide(src, dst, src_alpha) ==
    LET inv_alpha == Opaque - src_alpha
    IN (src * src_alpha + dst * inv_alpha + RoundBias) \div Opaque

\* static_cast<uint8_t>((src * src_alpha + dst * inv_alpha + 127) / 255)
BlendChannel(src, dst, src_alpha) == BlendWide(src, dst, src_alpha) % ByteMod

\* lines 241-250 for one pixel: the four bytes dst_px[0..3] afterwards
BlendPx(src_px, dst_px, opacity) ==
    LET src_alpha == EffAlpha(src_px[4], opacity)
    IN IF Skipped(src_alpha) THEN dst_px
       ELSE << BlendChannel(src_px[1], dst_px[1], src_alpha),
               BlendChannel(src_px[2], dst_px[2], src_alpha),
               BlendChannel(src_px[3], dst_px[3], src_alpha),
               Opaque >>

\* std::max(0, dst_x)
ClipStart(dst_pos) == Max(0, dst_pos)

\* an end of the loop range that is not clipped to the frame
ClipEndUnclipped(frame_extent, dst_pos, overlay_extent) == dst_pos + overlay_extent

\* std::min(frame_w, dst_x + overlay_w)
ClipEnd(frame_extent, dst_pos, overlay_extent) == Min(frame_extent, dst_pos + overlay_extent)

\* overlay_x0 = start_x - dst_x
OverlayOrigin(start, dst_pos) == start - dst_pos

\* overlay.ptr<uint8_t>(oy) + ox * 4: a read outside the image is recorded by
\* the caller and yields an arbitrary pixel
ReadPx(overlay, ox, oy) ==
    IF <<ox, oy>> \in DOMAIN overlay.px THEN overlay.px[<<ox, oy>>] ELSE <<0, 0, 0, 0>>

\* blend_overlay_bgra: the buffer afterwards, the overlay pixels read and the
\* buffer bytes the loop addresses through dst_px (whether or not the pixel is
\* then skipped, written |-> the bytes actually stored to)
BlendOverlayBgra(dst, dst_linesize, frame_w, frame_h, overlay, dst_x, dst_y, opacity) ==
    IF IsEmpty(overlay) THEN [dst |-> dst, reads |-> {}, written |-> {}]
    ELSE
    LET overlay_w == overlay.cols
        overlay_h == overlay.rows
        start_x == ClipStart(dst_x)
        start_y == ClipStart(dst_y)
        end_x == ClipEnd(frame_w, dst_x, overlay_w)
        end_y == ClipEnd(frame_h, dst_y, overlay_h)
        overlay_x0 == OverlayOrigin(start_x, dst_x)
        overlay_y0 == OverlayOrigin(start_y, dst_y)
        \* the (fx, fy) the two loops visit; empty when start >= end
        visited == (start_x .. end_x - 1) \X (start_y .. end_y - 1)
        Ox(p) == overlay_x0 + (p[1] - start_x)
        Oy(p) == overlay_y0 + (p[2] - start_y)
        Addr(p) == p[2] * dst_linesize + p[1] * BytesPerPx
        Src(p) == ReadPx(overlay, Ox(p), Oy(p))
        DstPx(p) == [k \in 1 .. BytesPerPx |->
                        IF Addr(p) + k - 1 \in DOMAIN dst THEN dst[Addr(p) + k - 1] ELSE 0]
        stored == {p \in visited : ~Skipped(EffAlpha(Src(p)[4], opacity))}
    IN [dst |-> [i \in DOMAIN dst |->
                   LET hit == {p \in stored : i - Addr(p) \in 0 .. BytesPerPx - 1}
                   IN IF hit = {} THEN dst[i]
                      ELSE LET p == CHOOSE q \in hit : TRUE
                           IN BlendPx(Src(p), DstPx(p), opacity)[i - Addr(p) + 1]],
        reads |-> {<<Ox(p), Oy(p)>> : p \in visited},
        written |-> {Addr(p) + k : p \in stored, k \in 0 .. BytesPerPx - 1}]

-----------------------------------------------------------------------------
(* shape_overlay_filter_video *)

\* The locals of shape_overlay_filter_video as declared in lines 272-285,
\* before the snapshot.  frame/data are the argument and its pixel buffer;
\* score, found_x, found_y and matched are the locals of lines 319-322;
\* matcher_calls and blend_at record what the call has done so far;
\* overlay_shared tells whether the local overlay_draw header refers to the
\* pixel buffer that filter->overlay_draw refers to.
VIdle ==
    [frame |-> [ptr |-> NullPtr, width |-> 0, height |-> 0, linesize |-> 0],
     data |-> << >>,
     template_gray |-> EmptyMat, overlay_draw |-> EmptyMat,
     threshold |-> 0, opacity |-> UnitScale, interval_ms |-> 0,
     offset_x |-> 0, offset_y |-> 0, only_when_matched |-> TRUE,
     last_detect_ts |-> 0, last_x |-> 0, last_y |-> 0, last_valid |-> FALSE,
     last_score |-> 0,
     now |-> 0, should_detect |-> FALSE, state_updated |-> FALSE,
     score |-> 0, found_x |-> 0, found_y |-> 0, matched |-> FALSE,
     matcher_calls |-> 0, blend_at |-> "none", overlay_shared |-> FALSE]

\* The detection state of the instance, as one value
DetState(f) ==
    [last_detect_ts |-> f.last_detect_ts, last_x |-> f.last_x, last_y |-> f.last_y,
     last_score |-> f.last_score, last_valid |-> f.last_valid]

\* The configuration of the instance, as one value
Config(f) ==
    [template_path |-> f.template_path, overlay_path |-> f.overlay_path,
     template_gray |-> f.template_gray, overlay_bgra |-> f.overlay_bgra,
     overlay_draw |-> f.overlay_draw, threshold |-> f.threshold,
     interval_ms |-> f.interval_ms, opacity |-> f.opacity,
     offset_x |-> f.offset_x, offset_y |-> f.offset_y,
     scale_overlay |-> f.scale_overlay, only_when_matched |-> f.only_when_matched]

\* lines 289-302: the copies made under the lock.  The scalars are copied by
\* value; cv::Mat::operator= copies the header and shares the reference-counted
\* pixel buffer.
Snapshot(loc, f) ==
    [loc EXCEPT !.template_gray = f.template_gray,
                !.overlay_draw = f.overlay_draw,
                !.overlay_shared = ~IsEmpty(f.overlay_draw),
                !.threshold = f.threshold,
                !.opacity = f.opacity,
                !.interval_ms = f.interval_ms,
                !.offset_x = f.offset_x,
                !.offset_y = f.offset_y,
                !.only_when_matched = f.only_when_matched,
                !.last_detect_ts = f.last_detect_ts,
                !.last_x = f.last_x,
                !.last_y = f.last_y,
                !.last_valid = f.last_valid,
                !.last_score = f.last_score]

\* a missing-image test that wants both images empty
ImageMissingBoth(loc) == IsEmpty(loc.template_gray) /\ IsEmpty(loc.overlay_draw)

\* line 305
ImageMissing(loc) == IsEmpty(loc.template_gray) \/ IsEmpty(loc.overlay_draw)

\* a due test with the comparison turned round
ShouldDetectInverted(interval_ms, now, last_detect_ts) ==
    (interval_ms = 0) \/ (now - last_detect_ts < interval_ms * NsPerMs)

\* lines 310-311; now never precedes a stored timestamp (TimestampsInPast), so
\* the unsigned difference does not wrap
ShouldDetect(interval_ms, now, last_detect_ts) ==
    (interval_ms = 0) \/ (now - last_detect_ts >= interval_ms * NsPerMs)

\* a miss that always clears last_valid
MissValidCleared(last_valid, only_when_matched) == FALSE

\* lines 330-332: what a miss leaves of last_valid
MissValid(last_valid, only_when_matched) ==
    IF only_when_matched THEN FALSE ELSE last_valid

\* lines 319-335: the locals after a detection attempt with outcome det
AfterDetect(loc, det) ==
    [loc EXCEPT !.score = det.score,
                !.found_x = det.x,
                !.found_y = det.y,
                !.last_score = det.score,
                !.last_x = IF det.matched THEN det.x ELSE @,
                !.last_y = IF det.matched THEN det.y ELSE @,
                !.last_valid = IF det.matched THEN TRUE
                               ELSE MissValid(@, loc.only_when_matched),
                !.last_detect_ts = loc.now,
                !.state_updated = TRUE,
                !.matched = det.matched,
                !.matcher_calls = @ + 1]

\* a write-back that leaves the timestamp alone
WriteBackNoStamp(f, loc) ==
    [f EXCEPT !.last_x = loc.last_x,
              !.last_y = loc.last_y,
              !.last_valid = loc.last_valid,
              !.last_score = loc.last_score]

\* lines 340-344
WriteBack(f, loc) ==
    [f EXCEPT !.last_detect_ts = loc.last_detect_ts,
              !.last_x = loc.last_x,
              !.last_y = loc.last_y,
              !.last_valid = loc.last_valid,
              !.last_score = loc.last_score]

\* The four-channel interleaved layouts the frame source documents as supported
FourChannelLayouts == {"BGRA", "BGRX"}

NoRet == [via |-> "none"]

\* The call in progress, as its caller sees it: the frame passed in and
\* whether its layout is a supported one.
Pending(fr) ==
    [via |-> "pending", arg |-> Geometry(fr), layout4 |-> fr.format \in FourChannelLayouts]

\* A finished call: the return statement taken (via: "null" line 258, "format"
\* line 269, "missing" line 306, "invalid" line 348, "blend" line 358), the
\* pointer it returns, the frame's bytes at the return, what the call did about
\* detection (attempt: "none", "hit", "miss"), where it blended (at) and
\* whether it logged the unsupported-format diagnostic (warned).
Returned(via, ptr, loc, pending) ==
    [via |-> via, arg |-> pending.arg, layout4 |-> pending.layout4,
     ptr |-> ptr, data |-> loc.data,
     attempt |-> IF ~loc.state_updated THEN "none"
                 ELSE IF loc.matched THEN "hit" ELSE "miss",
     at |-> loc.blend_at, warned |-> FALSE]

\* a format gate that logs the diagnostic for every unsupported frame
WarnsAlways(f) == TRUE

\* line 264: if (!filter->warned_format)
Warns(f) == ~f.warned_format

\* The frame source calls filter_video once the previous call has returned.
\* lines 257-270: the null check and the format gate with its one-time
\* warning; both return the frame at once
VideoEnter ==
    /\ vpc \in {"idle", "done"}
    /\ \E fr \in FramePool :
          LET loc == [VIdle EXCEPT !.frame = Geometry(fr), !.data = FrameData(fr)]
          IN
          IF fr.ptr = NullPtr
             THEN /\ vpc' = "done" /\ ret' = Returned("null", NullPtr, loc, Pending(fr))
                  /\ v' = VIdle
                  /\ hist' = [hist EXCEPT !.first = (vpc = "idle")]
                  /\ UNCHANGED filter
             ELSE IF Unsupported(fr.format)
             THEN /\ vpc' = "done"
                  /\ ret' = [Returned("format", loc.frame.ptr, loc, Pending(fr))
                               EXCEPT !.warned = Warns(filter)]
                  /\ v' = VIdle
                  /\ filter' = [filter EXCEPT !.warned_format = TRUE]
                  /\ hist' = [hist EXCEPT
                                !.first = (vpc = "idle"),
                                !.rejected = TRUE,
                                !.warnings = IF Warns(filter) THEN @ + 1 ELSE @]
             ELSE /\ vpc' = "lock1" /\ ret' = Pending(fr) /\ v' = loc
                  /\ hist' = [hist EXCEPT !.first = (vpc = "idle")]
                  /\ UNCHANGED filter
    /\ UNCHANGED <<mutex, upc, clock, bl>>

\* line 288: std::lock_guard acquires filter->mutex
VideoLockSnapshot ==
    /\ vpc = "lock1"
    /\ mutex = "free"
    /\ mutex' = "video"
    /\ vpc' = "cs1"
    /\ UNCHANGED <<filter, v, upc, clock, ret, hist, bl>>

\* lines 289-303: copy configuration and detection state, release the lock
VideoSnapshot ==
    /\ vpc = "cs1"
    /\ v' = Snapshot(v, filter)
    /\ hist' = [hist EXCEPT !.stale = FALSE]
    /\ mutex' = "free"
    /\ vpc' = "gate"
    /\ UNCHANGED <<filter, upc, clock, ret, bl>>

\* lines 305-312: the missing-image return (return frame), the clock read and
\* the interval gate
VideoGate ==
    /\ vpc = "gate"
    /\ IF ImageMissing(v)
       THEN vpc' = "done" /\ ret' = Returned("missing", v.frame.ptr, v, ret) /\ v' = VIdle
       ELSE LET due == ShouldDetect(v.interval_ms, clock, v.last_detect_ts)
            IN /\ v' = [v EXCEPT !.now = clock, !.should_detect = due]
               /\ vpc' = IF due THEN "detect" ELSE "draw"
               /\ ret' = ret
    /\ UNCHANGED <<filter, mutex, upc, clock, hist, bl>>

\* lines 314-336: grayscale conversion, detect_template, the locals' update.
\* cv::matchTemplate has no result for a template that does not fit into the
\* image: it raises cv::Exception, which nothing in the filter catches, and
\* the call never returns ("threw").
VideoDetect ==
    /\ vpc = "detect"
    /\ LET frame_gray == [cols |-> v.frame.width, rows |-> v.frame.height]
       IN IF /\ ~FailsClosed(frame_gray, v.template_gray)
             /\ MatchResults(frame_gray, v.template_gray) = {}
          THEN vpc' = "threw" /\ v' = v
          ELSE /\ \E mres \in IF FailsClosed(frame_gray, v.template_gray)
                               THEN {[max_val |-> 0, max_loc |-> <<0, 0>>]}
                               ELSE MatchResults(frame_gray, v.template_gray) :
                      v' = AfterDetect(v, DetectTemplate(frame_gray, v.template_gray,
                                                         v.threshold, mres))
               /\ vpc' = "lock2"
    /\ UNCHANGED <<filter, mutex, upc, clock, ret, hist, bl>>

\* lines 338-339: state_updated, std::lock_guard acquires filter->mutex
VideoLockWriteBack ==
    /\ vpc = "lock2"
    /\ mutex = "free"
    /\ mutex' = "video"
    /\ vpc' = "cs2"
    /\ UNCHANGED <<filter, v, upc, clock, ret, hist, bl>>

\* lines 340-345: store the detection state, release the lock
VideoWriteBack ==
    /\ vpc = "cs2"
    /\ filter' = WriteBack(filter, v)
    /\ hist' = [hist EXCEPT !.fresh = IF v.matched /\ ~hist.stale THEN TRUE ELSE @]
    /\ mutex' = "free"
    /\ vpc' = "draw"
    /\ UNCHANGED <<v, upc, clock, ret, bl>>

\* lines 347-358: the validity test, the blend at last location + offset, and
\* return frame
VideoDraw ==
    /\ vpc = "draw"
    /\ IF ~v.last_valid
       THEN ret' = Returned("invalid", v.frame.ptr, v, ret)
       ELSE LET draw_x == v.last_x + v.offset_x
                draw_y == v.last_y + v.offset_y
                out == BlendOverlayBgra(v.data, v.frame.linesize, v.frame.width,
                                        v.frame.height, v.overlay_draw,
                                        draw_x, draw_y, v.opacity)
            IN ret' = Returned("blend", v.frame.ptr,
                               [v EXCEPT !.data = out.dst,
                                         !.blend_at = <<draw_x, draw_y>>], ret)
    /\ v' = VIdle
    /\ vpc' = "done"
    /\ UNCHANGED <<filter, mutex, upc, clock, hist, bl>>

-----------------------------------------------------------------------------
(* shape_overlay_filter_update *)

\* lines 129-142: the lock_guard, then the scalar fields read from the
\* settings and the clamps
UpdateLockFields ==
    /\ upc = "idle"
    /\ mutex = "free"
    /\ mutex' = "update"
    /\ \E s \in SettingsPool : filter' = ApplyFields(filter, s)
    /\ upc' = "load"
    /\ UNCHANGED <<vpc, v, clock, ret, hist, bl>>

\* cv::Mat::create(rows, cols, type), which cv::resize calls on its output:
\* a Mat that already has the size and type keeps its buffer, whoever else
\* refers to it.  Every non-empty overlay_draw is CV_8UC4 (load_overlay_bgra).
ReusesBuffer(m, cols, rows) == ~IsEmpty(m) /\ m.cols = cols /\ m.rows = rows

\* line 148 with an output that keeps its buffer; f is the instance after
\* lines 144-145
ResizesInPlace(f) ==
    /\ ~IsEmpty(f.overlay_bgra) /\ f.scale_overlay /\ ~IsEmpty(f.template_gray)
    /\ ReusesBuffer(f.overlay_draw, f.template_gray.cols, f.template_gray.rows)

\* What a reader without the lock can see of a buffer that is being
\* overwritten: each pixel as it was or as it becomes
TornPixels(old, new) ==
    { [old EXCEPT !.px = [p \in DOMAIN old.px |->
                            IF p \in S THEN new.px[p] ELSE old.px[p]]] :
        S \in SUBSET DOMAIN old.px }

\* The locals of a running frame call after lines 144-153; f is the instance
\* after lines 144-145, g after lines 147-153.  A resize in place writes the
\* buffer the call's overlay_draw refers to while the call may be reading it
\* in blend_overlay_bgra; any other outcome gives filter->overlay_draw
\* another buffer and leaves the call the only owner of the old one.
LocalsAfterUpdate(loc, f, g) ==
    IF ~loc.overlay_shared THEN {loc}
    ELSE IF ResizesInPlace(f)
         THEN { [loc EXCEPT !.overlay_draw = m] :
                  m \in TornPixels(loc.overlay_draw, g.overlay_draw) }
         ELSE { [loc EXCEPT !.overlay_shared = FALSE] }

\* an update that returns without releasing the mutex
UpdateLoadFinishHolding ==
    /\ upc = "load"
    /\ LET loaded == LoadImages(filter)
           scaled == ScaleOverlay(loaded)
       IN /\ filter' = Invalidate(scaled)
          /\ v' \in LocalsAfterUpdate(v, loaded, scaled)
    /\ hist' = [hist EXCEPT !.fresh = FALSE,
                            !.stale = vpc \in {"gate", "detect", "lock2", "cs2", "draw"}]
    /\ upc' = "idle"
    /\ UNCHANGED <<mutex, vpc, clock, ret, bl>>

\* lines 144-156: both images are read and decoded, the overlay is resampled
\* or taken as loaded, last_valid = false, and the lock_guard releases the mutex
\* as the function returns
UpdateLoadFinish ==
    /\ upc = "load"
    /\ LET loaded == LoadImages(filter)
           scaled == ScaleOverlay(loaded)
       IN /\ filter' = Invalidate(scaled)
          /\ v' \in LocalsAfterUpdate(v, loaded, scaled)
    /\ hist' = [hist EXCEPT !.fresh = FALSE,
                            !.stale = vpc \in {"gate", "detect", "lock2", "cs2", "draw"}]
    /\ mutex' = "free"
    /\ upc' = "idle"
    /\ UNCHANGED <<vpc, clock, ret, bl>>

-----------------------------------------------------------------------------
(* The clock *)

\* os_gettime_ns is monotonic
Tick ==
    /\ clock < MaxTicks * TickNs
    /\ clock' = clock + TickNs
    /\ UNCHANGED <<filter, mutex, vpc, v, upc, ret, hist, bl>>

-----------------------------------------------------------------------------
(* The instance in use *)

NoBlend == [phase |-> "none"]

\* History of the run.
\*   warnings: how many unsupported-format diagnostics were logged;
\*   fresh: a detection attempt that took its snapshot after the last
\*          completed update has succeeded;
\*   stale: an update has completed since the running call took its snapshot;
\*   first: no call but the first has been entered;
\*   rejected: a frame with an unsupported format has been returned.
HistInit ==
    [warnings |-> 0, fresh |-> FALSE, stale |-> FALSE, first |-> TRUE, rejected |-> FALSE]

\* after shape_overlay_filter_create
Init ==
    /\ \E s \in SettingsPool : filter = Created(s)
    /\ mutex = "free"
    /\ vpc = "idle"
    /\ v = VIdle
    /\ upc = "idle"
    /\ clock = 0
    /\ ret = NoRet
    /\ hist = HistInit
    /\ bl = NoBlend

Next ==
    \/ VideoEnter
    \/ VideoLockSnapshot
    \/ VideoSnapshot
    \/ VideoGate
    \/ VideoDetect
    \/ VideoLockWriteBack
    \/ VideoWriteBack
    \/ VideoDraw
    \/ UpdateLockFields
    \/ UpdateLoadFinish
    \/ Tick

Spec == Init /\ [][Next]_vars

\* the steps of the frame thread inside a call
VideoRun ==
    \/ VideoLockSnapshot
    \/ VideoSnapshot
    \/ VideoGate
    \/ VideoDetect
    \/ VideoLockWriteBack
    \/ VideoWriteBack
    \/ VideoDraw

\* the frame thread is inside a call and not waiting for a held mutex
VideoCanStep ==
    /\ vpc \notin {"idle", "done"}
    /\ vpc \in {"lock1", "lock2"} => mutex = "free"

\* the frame thread moves on: in a behaviour of Spec this is a step of VideoRun,
\* and it is enabled exactly where VideoRun is (ProgressIsVideoRun)
VideoProgress ==
    /\ VideoCanStep
    /\ \E p \in {"cs1", "gate", "detect", "lock2", "cs2", "draw", "done"} :
          p # vpc /\ vpc' = p

\* the settings thread leaves update: in a behaviour of Spec this is the step
\* UpdateLoadFinish
UpdateProgress == upc = "load" /\ upc' = "idle"

\* Scheduling.  A thread that can take a step is not held back for ever: the
\* settings thread, once it holds the mutex, finishes its update and releases
\* it (the lock_guard's scope ends), and the frame thread inside a call takes
\* its next step if that step stays possible.  std::mutex promises no order
\* among the threads that want it, so a thread waiting in lock() is only
\* certain to get the mutex when the mutex stays free.  Nothing obliges the
\* frame source to deliver a frame, the settings source to call update, or
\* the clock to advance.
Fairness ==
    /\ WF_vpc(VideoProgress)
    /\ WF_upc(UpdateProgress)

\* a waiting lock() of the frame thread succeeds if the mutex is free again
\* and again
MutexGranted == SF_vpc(VideoProgress)

FairSpec == Spec /\ Fairness

-----------------------------------------------------------------------------
(* blend_overlay_bgra on its own: the arguments are drawn from bounded sets *)

\* overlay alpha bytes and opacities (thousandths) the stand-alone calls use
AlphaSamples == <<0, 1, 128, 255>>
OpacitySamples == {0, 2, 500, 1000}

\* an overlay of the given size; its alpha bytes run through AlphaSamples
\* starting at the k-th
SampleOverlay(w, h, k) ==
    IF w = 0 \/ h = 0 THEN EmptyMat
    ELSE [cols |-> w, rows |-> h,
          px |-> [p \in Coords(w, h) |->
                    << (200 + 7 * p[1]) % ByteMod, (100 + 50 * p[2]) % ByteMod,
                       (3 + 250 * p[1] + 5 * p[2]) % ByteMod,
                       AlphaSamples[((p[1] + 2 * p[2] + k) % Len(AlphaSamples)) + 1] >>]]

\* a destination buffer of h rows of linesize bytes; no byte is 255
SampleBuffer(linesize, h) == [i \in 0 .. linesize * h - 1 |-> (i * 37 + 11) % Opaque]

BlendArgs ==
    { [dst |-> SampleBuffer(w * BytesPerPx + pad, h), dst_linesize |-> w * BytesPerPx + pad,
       frame_w |-> w, frame_h |-> h, overlay |-> SampleOverlay(ow, oh, k),
       dst_x |-> x, dst_y |-> y, opacity |-> op] :
        w \in 1 .. MaxDim, h \in 1 .. MaxDim, pad \in {0, BytesPerPx},
        ow \in 0 .. MaxDim, oh \in 0 .. MaxDim, k \in {0, 1},
        x \in -MaxDim .. MaxDim, y \in -MaxDim .. MaxDim, op \in OpacitySamples }

InitBlend ==
    /\ filter = DefaultData
    /\ mutex = "free"
    /\ vpc = "idle"
    /\ v = VIdle
    /\ upc = "idle"
    /\ clock = 0
    /\ ret = NoRet
    /\ hist = HistInit
    /\ \E a \in BlendArgs : bl = [phase |-> "call", args |-> a]

\* one call of blend_overlay_bgra
BlendCall ==
    /\ bl.phase = "call"
    /\ bl' = [phase |-> "returned", args |-> bl.args,
              out |-> BlendOverlayBgra(bl.args.dst, bl.args.dst_linesize,
                                       bl.args.frame_w, bl.args.frame_h,
                                       bl.args.overlay, bl.args.dst_x, bl.args.dst_y,
                                       bl.args.opacity)]
    /\ UNCHANGED <<filter, mutex, vpc, v, upc, clock, ret, hist>>

NextBlend == BlendCall

SpecBlend == InitBlend /\ [][NextBlend]_vars

-----------------------------------------------------------------------------
(* shape_overlay_filter_update on its own: the settings thread alone, handed *)
(* settings whose values the user interface does not restrict                *)

\* thresholds (thousandths) and opacities (percent) a settings object can hold
SuppliedThresholds == {NaN, -100, 800, 1500}
SuppliedOpacities == {NaN, -20, 50, 250}

SuppliedSettings ==
    { [template_path |-> tp, overlay_path |-> op, threshold |-> th,
       interval_ms |-> 100, opacity |-> pc, offset_x |-> 0, offset_y |-> 0,
       scale_overlay |-> sc, only_when_matched |-> TRUE] :
        tp \in {"", "t.png", "big.png", "gone.png"},
        op \in {"", "o.png", "rgb.png", "gray.png", "ga.png"},
        th \in SuppliedThresholds, pc \in SuppliedOpacities, sc \in BOOLEAN }

\* new shape_overlay_filter_data(), before the update that create makes
InitUpdate ==
    /\ filter = DefaultData
    /\ mutex = "free"
    /\ vpc = "idle"
    /\ v = VIdle
    /\ upc = "idle"
    /\ clock = 0
    /\ ret = NoRet
    /\ hist = HistInit
    /\ bl = NoBlend

\* lines 129-142 with any supplied values; std::clamp of a NaN yields any of
\* its outcomes
UpdateSupplied ==
    /\ upc = "idle"
    /\ mutex = "free"
    /\ mutex' = "update"
    /\ \E s \in SuppliedSettings :
          \E th \in ClampOutcomes(s.threshold, 0, UnitScale),
             op \in ClampOutcomes(PercentToFraction(s.opacity), 0, UnitScale) :
             filter' = [ApplyFields(filter, s) EXCEPT !.threshold = th, !.opacity = op]
    /\ upc' = "load"
    /\ UNCHANGED <<vpc, v, clock, ret, hist, bl>>

NextUpdate == UpdateSupplied \/ UpdateLoadFinish

SpecUpdate == InitUpdate /\ [][NextUpdate]_vars

-----------------------------------------------------------------------------
(* The blend of one pixel, for every alpha byte *)

\* colour bytes at and next to both ends of the byte range
EdgeBytes == {0, 1, Opaque - 1, Opaque}

\* stored opacities at and next to both ends of [0, 1] and around one half
UnitOpacities == {0, 1, 2, 499, 500, 501, UnitScale - 1, UnitScale}

PixelArgs ==
    { [src_px |-> <<sc, Opaque - sc, sc, alpha>>, dst_px |-> <<dc, dc, Opaque - dc, 40>>,
       opacity |-> op] :
        sc \in EdgeBytes, dc \in EdgeBytes, alpha \in 0 .. Opaque, op \in UnitOpacities }

InitPixel ==
    /\ filter = DefaultData
    /\ mutex = "free"
    /\ vpc = "idle"
    /\ v = VIdle
    /\ upc = "idle"
    /\ clock = 0
    /\ ret = NoRet
    /\ hist = HistInit
    /\ \E a \in PixelArgs : bl = [phase |-> "pixel", args |-> a]

\* lines 241-250 for one pixel, with the values of the ints src_alpha and
\* inv_alpha and of the three quotients before the narrowing casts
BlendPixel ==
    /\ bl.phase = "pixel"
    /\ LET a == bl.args
           src_alpha == EffAlpha(a.src_px[4], a.opacity)
       IN bl' = [phase |-> "blended", args |-> a,
                 src_alpha |-> src_alpha,
                 skipped |-> Skipped(src_alpha),
                 inv_alpha |-> Opaque - src_alpha,
                 wide |-> [c \in 1 .. 3 |-> BlendWide(a.src_px[c], a.dst_px[c], src_alpha)],
                 out |-> BlendPx(a.src_px, a.dst_px, a.opacity)]
    /\ UNCHANGED <<filter, mutex, vpc, v, upc, clock, ret, hist>>

NextPixel == BlendPixel

SpecPixel == InitPixel /\ [][NextPixel]_vars

-----------------------------------------------------------------------------
(* Templates of every shape against one frame size *)

\* Settings whose template fits the 2 x 2 frames, is wider, or is taller, with
\* both values of only_when_matched
GeometrySettings ==
    { [template_path |-> tp, overlay_path |-> "o.png", threshold |-> 800,
       interval_ms |-> 0, opacity |-> 100, offset_x |-> 0, offset_y |-> 0,
       scale_overlay |-> FALSE, only_when_matched |-> owm] :
        tp \in {"t.png", "big.png", "tall.png"}, owm \in BOOLEAN }

InitGeometry ==
    /\ \E s \in GeometrySettings : filter = Created(s)
    /\ mutex = "free"
    /\ vpc = "idle"
    /\ v = VIdle
    /\ upc = "idle"
    /\ clock = 0
    /\ ret = NoRet
    /\ hist = HistInit
    /\ bl = NoBlend

\* shape_overlay_filter_update, lines 129-142, with one of these settings
UpdateGeometry ==
    /\ upc = "idle"
    /\ mutex = "free"
    /\ mutex' = "update"
    /\ \E s \in GeometrySettings : filter' = ApplyFields(filter, s)
    /\ upc' = "load"
    /\ UNCHANGED <<vpc, v, clock, ret, hist, bl>>

NextGeometry ==
    \/ VideoEnter
    \/ VideoLockSnapshot
    \/ VideoSnapshot
    \/ VideoGate
    \/ VideoDetect
    \/ VideoLockWriteBack
    \/ VideoWriteBack
    \/ VideoDraw
    \/ UpdateGeometry
    \/ UpdateLoadFinish
    \/ Tick

SpecGeometry == InitGeometry /\ [][NextGeometry]_vars

-----------------------------------------------------------------------------
(* Properties *)

\* a step of the frame thread
VideoStep == vpc' # vpc

\* The progress steps the fairness conditions name are the steps of the code:
\* the frame thread's position changes inside a call exactly on a VideoRun
\* step, and the settings thread leaves "load" exactly on UpdateLoadFinish.
ProgressIsVideoRun ==
    [][ /\ <<VideoProgress>>_vpc <=> VideoRun
        /\ <<UpdateProgress>>_upc <=> UpdateLoadFinish ]_vars

\* ... and they are possible exactly where those steps are
ProgressEnabledAsVideoRun ==
    /\ (ENABLED <<VideoProgress>>_vpc) <=> ENABLED VideoRun
    /\ (ENABLED <<UpdateProgress>>_upc) <=> ENABLED UpdateLoadFinish

\* the last step of a call
VideoReturns == vpc # "done" /\ vpc' = "done"

\* round(num / den), halves upwards, for num >= 0
RoundDiv(num, den) == (2 * num + den) \div (2 * den)

\* The stored timestamp is a past reading of the clock, so the unsigned
\* difference now - last_detect_ts never wraps.
TimestampsInPast ==
    /\ filter.last_detect_ts <= clock
    /\ vpc \in {"gate", "detect", "lock2", "cs2", "draw"} => v.last_detect_ts <= clock

\* C1: Interval gating.  A call with a supported frame and both images whose
\* clock reading is less than interval_ms after the stored timestamp (with
\* interval_ms > 0) goes from the gate straight to the draw decision: the
\* Matcher is not invoked, no step of the call writes a field of the detection
\* state, and the decision (blend at stored location + offset when the stored
\* validity is true, no blend otherwise) uses the location and validity that
\* the snapshot copied from the instance.
C1_IntervalGating ==
    [][ /\ (vpc = "cs1" /\ VideoStep) =>
              /\ v'.last_x = filter.last_x /\ v'.last_y = filter.last_y
              /\ v'.last_valid = filter.last_valid
              /\ v'.last_detect_ts = filter.last_detect_ts
              /\ v'.interval_ms = filter.interval_ms
        /\ (/\ vpc = "gate" /\ VideoStep
            /\ ~IsEmpty(v.template_gray) /\ ~IsEmpty(v.overlay_draw)
            /\ v.interval_ms > 0
            /\ clock - v.last_detect_ts < v.interval_ms * NsPerMs) =>
              /\ vpc' = "draw"
              /\ v'.matcher_calls = 0 /\ ~v'.state_updated
              /\ v'.last_x = v.last_x /\ v'.last_y = v.last_y
              /\ v'.last_valid = v.last_valid
              /\ DetState(filter') = DetState(filter)
        /\ (vpc = "draw" /\ VideoStep /\ ~v.state_updated) =>
              /\ DetState(filter') = DetState(filter)
              /\ ret'.attempt = "none"
              /\ IF v.last_valid
                 THEN /\ ret'.via = "blend"
                      /\ ret'.at = <<v.last_x + v.offset_x, v.last_y + v.offset_y>>
                 ELSE /\ ret'.via = "invalid"
                      /\ ret'.data = FrameData(ret'.arg)
      ]_vars

\* a call that was not due has composited from the stored match
C1_Witness ==
    vpc = "done" /\ ret.via = "blend" /\ ret.attempt = "none"

\* C2: once an update has completed, no frame is composited until a detection
\* attempt that took its snapshot after that update has succeeded.
C2_RedetectBeforeDraw ==
    [][ (VideoReturns /\ ret'.via = "blend") => hist.fresh ]_vars

\* a frame was composited by a call whose snapshot predates an update that
\* completed during the call, and the instance is left valid
C2_Witness ==
    vpc = "done" /\ ret.via = "blend" /\ hist.stale /\ filter.last_valid

\* C3: the lock is held only for copying: the settings thread does not hold it
\* while it loads and resamples the images, the frame thread does not hold it
\* while it detects or blends, and so neither makes the other wait for its
\* expensive work.
C3_LockOnlyForCopying ==
    /\ upc = "load" => mutex # "update"
    /\ vpc \in {"gate", "detect", "draw"} => mutex # "video"
    /\ ~(vpc \in {"lock1", "lock2"} /\ mutex = "update" /\ upc = "load")

\* the frame thread waits for the mutex while the settings thread, holding
\* it, loads and resamples the images
C3_Witness ==
    upc = "load" /\ mutex = "update" /\ vpc = "lock1"

\* C4: a due attempt that misses while the stored validity is true (a prior hit,
\* no update since): with only_when_matched false the stored validity stays
\* true, the stored location is kept and the frame is blended at that location
\* plus the offset; with only_when_matched true the stored validity becomes
\* false and the frame is returned with every byte as delivered.
C4_MissAfterHit ==
    [][ /\ (vpc = "cs2" /\ VideoStep /\ ~v.matched /\ filter.last_valid) =>
              /\ filter'.last_valid = ~v.only_when_matched
              /\ filter'.last_x = filter.last_x /\ filter'.last_y = filter.last_y
              /\ v'.last_valid = filter'.last_valid
              /\ v'.last_x = filter.last_x /\ v'.last_y = filter.last_y
        /\ (vpc = "draw" /\ VideoStep /\ v.state_updated /\ ~v.matched) =>
              IF ~v.only_when_matched /\ v.last_valid
              THEN /\ ret'.via = "blend"
                   /\ ret'.at = <<filter.last_x + v.offset_x, filter.last_y + v.offset_y>>
              ELSE /\ ret'.via = "invalid"
                   /\ ret'.data = FrameData(ret'.arg)
      ]_vars

\* a miss has kept the earlier hit and the frame was blended
C4_Witness ==
    vpc = "done" /\ ret.via = "blend" /\ ret.attempt = "miss"

\* C5 as stated: every call returns, and what it returns is the pointer it
\* was given, at every return statement (null frame, unsupported format,
\* missing image, not due, miss, hit) and whatever the settings thread does
\* meanwhile, given only that each thread that can run does run and each lock
\* holder releases the lock.
C5_ReturnsUnderHolderFairness ==
    /\ [](vpc = "done" => ret.ptr = ret.arg.ptr)
    /\ [](vpc \notin {"idle", "done"} => <>(vpc = "done"))

\* C5: every return hands back the pointer the call was given, and every call
\* returns provided the mutex is granted to the waiting frame thread when it
\* is released again and again.
C5_ReturnsSameFrame ==
    /\ [](vpc = "done" => ret.ptr = ret.arg.ptr)
    /\ MutexGranted => [](vpc \notin {"idle", "done"} => <>(vpc = "done"))

\* a call that had to take the mutex twice has returned its frame
C5_Witness ==
    vpc = "done" /\ ret.attempt = "hit" /\ ret.via = "blend" /\ ret.ptr = "frameA"

\* C6: a call whose snapshot holds an empty template or an empty overlay
\* returns the frame it was given with every byte as delivered, without a
\* detection attempt, and none of its steps writes the detection state.
C6_MissingImageNoOp ==
    [][ /\ (vpc = "gate" /\ VideoStep
            /\ (IsEmpty(v.template_gray) \/ IsEmpty(v.overlay_draw))) =>
              /\ vpc' = "done"
              /\ ret'.via = "missing"
              /\ ret'.ptr = ret'.arg.ptr
              /\ ret'.data = FrameData(ret'.arg)
              /\ ret'.attempt = "none" /\ v.matcher_calls = 0
              /\ DetState(filter') = DetState(filter)
        /\ (vpc \in {"idle", "done", "lock1", "cs1"} /\ VideoStep) =>
              DetState(filter') = DetState(filter)
      ]_vars

C6_Witness ==
    vpc = "done" /\ ret.via = "missing" /\ ret.data = FrameData(ret.arg)

\* C7: a frame whose format is not one of the two supported layouts is
\* returned at once with every byte as delivered; no detection attempt is made
\* and neither the configuration nor the detection state changes.
C7_FormatGating ==
    [][ (vpc \in {"idle", "done"} /\ VideoStep
         /\ ret'.arg.ptr # NullPtr /\ ~ret'.layout4) =>
              /\ vpc' = "done"
              /\ ret'.via = "format"
              /\ ret'.ptr = ret'.arg.ptr
              /\ ret'.data = FrameData(ret'.arg)
              /\ ret'.attempt = "none"
              /\ Config(filter') = Config(filter)
              /\ DetState(filter') = DetState(filter)
      ]_vars

C7_Witness ==
    vpc = "done" /\ ret.via = "format" /\ ~ret.layout4 /\ filter.warned_format

\* the destination pixels inside both the placed overlay rectangle
\* [x, x + overlayW) x [y, y + overlayH) and the frame
Intersection(a) ==
    { p \in Coords(a.frame_w, a.frame_h) :
        /\ a.dst_x <= p[1] /\ p[1] < a.dst_x + a.overlay.cols
        /\ a.dst_y <= p[2] /\ p[2] < a.dst_y + a.overlay.rows }

\* the address of the first byte of a destination pixel
PixelAddr(a, p) == p[2] * a.dst_linesize + p[1] * 4

\* the four bytes of a destination pixel
PixelBytes(a, p) == { PixelAddr(a, p) + k : k \in 0 .. 3 }

\* the overlay pixel that lies over a destination pixel
OverlayPx(a, p) == a.overlay.px[<<p[1] - a.dst_x, p[2] - a.dst_y>>]

\* round(overlayAlpha * opacity) of the overlay pixel over a destination pixel
EffectiveAlpha(a, p) == RoundDiv(OverlayPx(a, p)[4] * a.opacity, 1000)

\* C8: Compositing clipping.  For every overlay size and placement, a call of
\* blend stores only to bytes of destination pixels inside the intersection of
\* the placed overlay rectangle with the frame, reads only overlay pixels
\* inside the overlay's bounds, leaves every other byte of the buffer (row
\* padding included) as it was, and stores and reads nothing when the
\* intersection is empty.
C8_Clipping ==
    bl.phase = "returned" =>
        LET a == bl.args
            o == bl.out
            inside == UNION { PixelBytes(a, p) : p \in Intersection(a) }
        IN /\ DOMAIN o.dst = DOMAIN a.dst
           /\ o.written \subseteq inside
           /\ \A i \in DOMAIN a.dst \ inside : o.dst[i] = a.dst[i]
           /\ o.reads \subseteq Coords(a.overlay.cols, a.overlay.rows)
           /\ Intersection(a) = {} =>
                 o.dst = a.dst /\ o.written = {} /\ o.reads = {}

\* an overlay hanging over the left and the bottom edge was blended in part
C8_Witness ==
    /\ bl.phase = "returned"
    /\ bl.args.dst_x < 0
    /\ bl.args.dst_y + bl.args.overlay.rows > bl.args.frame_h
    /\ bl.out.written # {}
    /\ Cardinality(Intersection(bl.args)) < bl.args.overlay.cols * bl.args.overlay.rows

\* C9: Alpha=0 short-circuit.  Every destination pixel under an overlay pixel
\* whose effective alpha round(overlayAlpha * opacity) is 0 keeps its four
\* bytes, the alpha byte included.
C9_AlphaZeroShortCircuit ==
    bl.phase = "returned" =>
        \A p \in Intersection(bl.args) :
            EffectiveAlpha(bl.args, p) = 0 =>
                \A i \in PixelBytes(bl.args, p) : bl.out.dst[i] = bl.args.dst[i]

\* a pixel with a non-zero alpha byte that the opacity scales to 0 was passed
\* over in a call that blended another pixel
C9_Witness ==
    /\ bl.phase = "returned"
    /\ bl.out.written # {}
    /\ \E p \in Intersection(bl.args) :
          /\ OverlayPx(bl.args, p)[4] > 0
          /\ EffectiveAlpha(bl.args, p) = 0
          /\ bl.args.dst[PixelAddr(bl.args, p) + 3] # 255

\* C10: Blend arithmetic.  Every destination pixel under an overlay pixel with
\* effective alpha a = round(overlayAlpha * opacity) > 0 gets the colour
\* channels (src * a + dst * (255 - a) + 127) div 255 and the alpha byte 255;
\* overlay alpha 255 at opacity 0.5 blends with a = 128, that is
\* (src * 128 + dst * 127 + 127) div 255.
C10_BlendArithmetic ==
    bl.phase = "returned" =>
        \A p \in Intersection(bl.args) :
            LET a == EffectiveAlpha(bl.args, p)
                src == OverlayPx(bl.args, p)
                at == PixelAddr(bl.args, p)
            IN /\ a > 0 =>
                    /\ \A c \in 0 .. 2 :
                          bl.out.dst[at + c] =
                              (src[c + 1] * a + bl.args.dst[at + c] * (255 - a) + 127) \div 255
                    /\ bl.out.dst[at + 3] = 255
               /\ (src[4] = 255 /\ bl.args.opacity = 500) =>
                    \A c \in 0 .. 2 :
                        bl.out.dst[at + c] =
                            (src[c + 1] * 128 + bl.args.dst[at + c] * 127 + 127) \div 255

\* an opaque overlay pixel was blended at opacity 0.5 and changed a colour byte
C10_Witness ==
    /\ bl.phase = "returned"
    /\ bl.args.opacity = 500
    /\ \E p \in Intersection(bl.args) :
          /\ OverlayPx(bl.args, p)[4] = 255
          /\ bl.out.dst[PixelAddr(bl.args, p) + 3] = 255
          /\ bl.out.dst[PixelAddr(bl.args, p)] # bl.args.dst[PixelAddr(bl.args, p)]


\* the template of the running call fits into its frame, so that the Matcher
\* computes a correlation surface
TemplateFits ==
    /\ ~IsEmpty(v.template_gray)
    /\ v.template_gray.cols <= v.frame.width
    /\ v.template_gray.rows <= v.frame.height

\* C11: Threshold boundary is inclusive.  In a detection attempt that computes
\* a best score, the score is handed to the caller whether or not it reaches
\* the threshold; a score equal to (or above) the threshold is a match, whose
\* location becomes the stored location with validity true; a score below the
\* threshold is a miss.
C11_ThresholdInclusive ==
    [][ /\ (vpc = "detect" /\ VideoStep /\ TemplateFits) =>
              /\ v'.score \in Scores
              /\ v'.last_score = v'.score
              /\ v'.matched <=> v'.score >= v.threshold
              /\ v'.score = v.threshold =>
                    /\ v'.matched /\ v'.last_valid
                    /\ v'.last_x = v'.found_x /\ v'.last_y = v'.found_y
              /\ v'.score < v.threshold =>
                    /\ ~v'.matched
                    /\ v'.last_x = v.last_x /\ v'.last_y = v.last_y
        /\ (vpc = "cs2" /\ VideoStep) =>
              /\ filter'.last_score = v.score
              /\ v.matched =>
                    /\ filter'.last_valid
                    /\ filter'.last_x = v.found_x /\ filter'.last_y = v.found_y
      ]_vars

\* a best score equal to the threshold was stored as a match away from the
\* origin
C11_Witness ==
    /\ vpc = "draw" /\ v.matched
    /\ v.score = v.threshold
    /\ filter.last_valid /\ filter.last_score = v.threshold
    /\ filter.last_y = v.found_y /\ v.found_y > 0

\* a best score one unit below the threshold was stored as a miss
C11_BelowIsMiss ==
    vpc = "draw" /\ ~v.matched /\ v.score = v.threshold - 1 /\ filter.last_score = v.score

\* a float lies in [0, 1]
InUnitRange(x) == x # NaN /\ 0 <= x /\ x <= UnitScale

\* C12: Configuration range invariant.  At construction and after any sequence
\* of updates with any supplied values, the stored threshold and the stored
\* opacity lie in [0, 1].
C12_ConfigInRange ==
    InUnitRange(filter.threshold) /\ InUnitRange(filter.opacity)

\* an update has stored a threshold that no comparison orders
C12_Witness ==
    upc = "idle" /\ filter.threshold = NaN /\ filter.template_path = "t.png"

\* C13: Overlay scaling.  After any update, if scale_overlay is set and both
\* the template and the loaded overlay are non-empty, the overlay used for
\* drawing has the template's width and height; otherwise it has the width and
\* height of the overlay file as decoded, and is empty when the loaded overlay
\* is empty.
C13_OverlayScaling ==
    upc = "idle" =>
        LET t == filter.template_gray
            o == filter.overlay_bgra
            d == filter.overlay_draw
            native == ImreadUnchanged(filter.overlay_path)
        IN IF filter.scale_overlay /\ ~IsEmpty(t) /\ ~IsEmpty(o)
           THEN d.cols = t.cols /\ d.rows = t.rows
           ELSE IF IsEmpty(o) THEN IsEmpty(d)
           ELSE d.cols = native.cols /\ d.rows = native.rows

\* an update has resampled a 2x2 overlay to the 2x1 template
C13_Witness ==
    /\ upc = "idle" /\ filter.scale_overlay
    /\ ~IsEmpty(filter.overlay_draw)
    /\ filter.overlay_draw.rows = filter.template_gray.rows
    /\ filter.overlay_draw.rows # filter.overlay_bgra.rows

\* an update with scale_overlay set has kept the native size, the template
\* being empty
C13_NativeWhenNoTemplate ==
    /\ upc = "idle" /\ filter.scale_overlay /\ IsEmpty(filter.template_gray)
    /\ filter.overlay_draw.cols = 2 /\ filter.overlay_draw.rows = 2

\* C14: Due-attempt transition.  A call with both images makes a detection
\* attempt exactly when interval_ms = 0 or now - last_detect_ts >= interval_ms
\* (so with interval_ms = 0 always); the attempt stamps the call's now; and
\* right after the write-back the stored timestamp is that now and the stored
\* score is the attempt's score, hit or miss, and after a hit the stored
\* location is the found location and the stored validity is true.
C14_DueTransition ==
    [][ /\ (vpc = "gate" /\ VideoStep
            /\ ~IsEmpty(v.template_gray) /\ ~IsEmpty(v.overlay_draw)) =>
              /\ v'.now = clock
              /\ vpc' = "detect" <=>
                    (v.interval_ms = 0
                     \/ clock - v.last_detect_ts >= v.interval_ms * 1000000)
              /\ vpc' # "detect" => vpc' = "draw"
        /\ (vpc = "detect" /\ VideoStep) =>
              /\ v'.matcher_calls = 1 /\ v'.state_updated
              /\ v'.last_detect_ts = v.now
        /\ (vpc = "cs2" /\ VideoStep) =>
              /\ filter'.last_detect_ts = v.now
              /\ filter'.last_score = v.score
              /\ v.matched =>
                    /\ filter'.last_x = v.found_x /\ filter'.last_y = v.found_y
                    /\ filter'.last_valid
        /\ (vpc = "draw" /\ VideoStep) =>
              (ret'.attempt # "none" <=> v.should_detect)
      ]_vars

\* a miss made after the clock advanced has been written back
C14_Witness ==
    /\ vpc = "draw" /\ v.state_updated /\ ~v.matched
    /\ v.now > 0 /\ filter.last_detect_ts = v.now
    /\ filter.last_score = v.score

\* C15: Initial state.  A newly constructed instance has last_valid = false
\* and last_detect_ts = 0, and the first call of filter_video, when its frame
\* has a supported format and both images are present, makes a detection
\* attempt for every interval_ms > 0 and every reading of the clock.
C15_FirstCallDue ==
    /\ [](vpc = "idle" => ~filter.last_valid /\ filter.last_detect_ts = 0)
    /\ [][ (/\ vpc = "gate" /\ VideoStep /\ hist.first
            /\ ~IsEmpty(v.template_gray) /\ ~IsEmpty(v.overlay_draw)
            /\ v.interval_ms > 0) => vpc' = "detect" ]_vars

\* the first call, with both images and interval_ms > 0, has returned without
\* a detection attempt
C15_Witness ==
    /\ vpc = "done" /\ hist.first /\ ret.via = "invalid" /\ ret.attempt = "none"
    /\ filter.interval_ms > 0 /\ filter.last_detect_ts = 0

\* a step of the settings thread
UpdateStep == upc' # upc

\* C16: update's effect on the detection state is last_valid = false and
\* nothing else: from the moment update takes the lock to its return, the
\* stored timestamp, location and score keep the values they had, and at the
\* return last_valid is false.
C16_UpdateKeepsTimestamps ==
    [][ /\ (UpdateStep \/ upc = "load") =>
              /\ filter'.last_detect_ts = filter.last_detect_ts
              /\ filter'.last_x = filter.last_x /\ filter'.last_y = filter.last_y
              /\ filter'.last_score = filter.last_score
        /\ (UpdateStep /\ upc = "idle") => filter'.last_valid = filter.last_valid
        /\ (UpdateStep /\ upc = "load") => ~filter'.last_valid
      ]_vars

\* an update has invalidated a hit that was made after the clock advanced,
\* and the hit's timestamp, location and score are still stored
C16_Witness ==
    /\ upc = "idle" /\ ~filter.last_valid
    /\ filter.last_detect_ts > 0 /\ filter.last_score = 800 /\ filter.last_y = 1

\* the part of the call in which the locals hold the snapshot
SnapshotLive == vpc \in {"gate", "detect", "lock2", "cs2", "draw"}

\* The configuration values a call works with
LocalConfig(loc) ==
    [template_gray |-> loc.template_gray, overlay_draw |-> loc.overlay_draw,
     threshold |-> loc.threshold, opacity |-> loc.opacity,
     interval_ms |-> loc.interval_ms, offset_x |-> loc.offset_x,
     offset_y |-> loc.offset_y, only_when_matched |-> loc.only_when_matched]

\* C17: mutual exclusion and atomic snapshot.  The instance's configuration
\* and detection state change only in a step of the thread that holds the
\* mutex, the two threads are never in a critical section together, the
\* snapshot step gives the call the configuration and detection state stored
\* at that instant, and from then to the return of the call the configuration
\* values it works with stay those values: no step of the settings thread
\* changes them.
C17_AtomicSnapshot ==
    /\ [](/\ mutex = "video" <=> vpc \in {"cs1", "cs2"}
          /\ mutex = "update" <=> upc = "load")
    /\ [][ /\ (Config(filter') # Config(filter) \/ DetState(filter') # DetState(filter))
               => \/ UpdateStep /\ mutex' = "update"
                  \/ UpdateStep /\ mutex = "update"
                  \/ VideoStep /\ mutex = "video"
           /\ (vpc = "cs1" /\ VideoStep)
               => /\ LocalConfig(v') = LocalConfig(filter)
                  /\ DetState(v') = DetState(filter)
           /\ (SnapshotLive /\ ~VideoStep) => LocalConfig(v') = LocalConfig(v)
         ]_vars

\* a call is about to composite from overlay pixels that were never stored
\* together: its overlay is no overlay any settings produce, because a
\* concurrent update resampled another image into the buffer it refers to
C17_Witness ==
    /\ vpc = "draw" /\ v.last_valid /\ v.overlay_shared /\ hist.stale
    /\ v.overlay_draw \notin {Created(s).overlay_draw : s \in SettingsPool}

\* C18: one-time format warning.  Whatever calls and updates are interleaved,
\* the unsupported-format diagnostic is logged by the call that returns the
\* first frame with an unsupported format and by no other step: the number of
\* diagnostics is 0 until such a frame has been returned and 1 ever after.
C18_WarnsOnce ==
    /\ [](/\ hist.warnings = (IF hist.rejected THEN 1 ELSE 0)
          /\ (vpc = "done" /\ ret.via = "format") => hist.rejected)
    /\ [][ /\ hist'.warnings =
                 hist.warnings + (IF ~hist.rejected /\ hist'.rejected THEN 1 ELSE 0)
           /\ (~hist.rejected /\ hist'.rejected) =>
                 /\ vpc' = "done" /\ ret'.via = "format" /\ ret'.warned
                 /\ ~ret'.layout4
           /\ UpdateStep => hist'.warnings = hist.warnings
         ]_vars

\* a later call has returned an unsupported frame without logging, while an
\* update was in progress
C18_Witness ==
    /\ vpc = "done" /\ ret.via = "format" /\ ~ret.warned
    /\ hist.warnings = 1 /\ upc = "load"

\* the template the call copied is wider or taller than its frame
TemplateTooBig(loc) ==
    /\ ~IsEmpty(loc.template_gray)
    /\ \/ loc.template_gray.cols > loc.frame.width
       \/ loc.template_gray.rows > loc.frame.height

\* C19: geometry mismatch is an ordinary miss.  A due attempt of a call whose
\* template is wider or taller than the frame reports no match and goes on to
\* the write-back: the call's timestamp becomes now, its validity becomes the
\* copied validity AND NOT only_when_matched, its location stays as copied; the
\* write-back stores exactly these and leaves the stored location as it was;
\* and the call returns the frame it was given.  No call ever ends in an
\* exception.
C19_GeometryMiss ==
    /\ [](vpc # "threw")
    /\ [][ /\ (vpc = "detect" /\ VideoStep /\ TemplateTooBig(v)) =>
                 /\ vpc' = "lock2"
                 /\ ~v'.matched /\ v'.state_updated
                 /\ v'.last_detect_ts = v.now
                 /\ v'.last_valid = (v.last_valid /\ ~v.only_when_matched)
                 /\ v'.last_x = v.last_x /\ v'.last_y = v.last_y
           /\ (vpc = "cs2" /\ VideoStep /\ TemplateTooBig(v)) =>
                 /\ filter'.last_detect_ts = v.now
                 /\ filter'.last_valid = v.last_valid
                 /\ filter'.last_x = filter.last_x /\ filter'.last_y = filter.last_y
           /\ (vpc = "draw" /\ VideoStep /\ v.state_updated /\ TemplateTooBig(v)) =>
                 /\ vpc' = "done"
                 /\ ret'.attempt = "miss"
                 /\ ret'.ptr = ret'.arg.ptr /\ ret'.ptr # NullPtr
         ]_vars

\* a call that copied a template taller than the frame (no update has
\* completed since its snapshot) has returned the frame after a miss at a
\* non-zero clock reading that kept the stored match valid
C19_Witness ==
    /\ vpc = "done" /\ ret.attempt = "miss" /\ ret.ptr = ret.arg.ptr
    /\ upc = "idle" /\ ~hist.stale
    /\ filter.template_gray.rows > 2 /\ ~filter.only_when_matched
    /\ filter.last_valid /\ filter.last_detect_ts > 0 /\ filter.last_y = 1

\* C20: blend value ranges.  For every overlay alpha byte, source and
\* destination channel bytes and every stored opacity in [0, 1], the effective
\* alpha lies in 0..255, 255 - effective alpha is not negative, and for a pixel
\* that is not skipped every quotient lies in 0..255 before it is narrowed, so
\* the byte stored is the quotient itself.
C20_BlendRanges ==
    bl.phase = "blended" =>
        /\ bl.src_alpha \in 0 .. 255
        /\ bl.inv_alpha >= 0
        /\ ~bl.skipped =>
              \A c \in 1 .. 3 : bl.wide[c] \in 0 .. 255 /\ bl.out[c] = bl.wide[c]

\* a fully opaque pixel at opacity 1 over a destination byte of 255: effective
\* alpha 255, inv_alpha 0 and a quotient of 255
C20_Witness ==
    /\ bl.phase = "blended" /\ ~bl.skipped
    /\ bl.src_alpha = 255 /\ bl.inv_alpha = 0
    /\ bl.args.src_px[1] = 255 /\ bl.wide[1] = 255 /\ bl.out[1] = 255

=============================================================================
